---- MODULE Spec2Model ----
(***************************************************************************)
(* Model of DataCollectionGUI (src/DataCollectionGUI.py): the experiment   *)
(* timeline builder, the start/stop handler, the acquisition thread        *)
(* (socket_loop), the timer thread (time_loop) and the window-close        *)
(* handler, with the transport abstracted to the frames it delivers.       *)
(*                                                                         *)
(* Durations and device timestamps are modelled as natural numbers.  A     *)
(* thread that dies of an unhandled exception ends with pc "crashed".  One *)
(* call of receive_and_handle_data is one atomic step.                      *)
(***************************************************************************)
EXTENDS Integers, Sequences, FiniteSets, TLC

(* ------------------------------ bounds -------------------------------- *)

\* number of successful start() calls (each creates a socket, a file and a
\* socket_loop thread)
MaxSessions == 2
\* number of time_loop threads (one per decoded Data-Start event)
MaxTimers == 2
\* frames the device delivers in all before it closes the connection
MaxFrames == 2
\* largest device timestamp
MaxTs == 2
\* ticks of the Clock explored in the session model
MaxTicks == 2
\* ticks of the Clock explored in the Clock-only model
MaxClockTicks == 62
\* largest relax/action duration and loop count of the timeline model
MaxSpan == 4
MaxLoops == 4
\* frames the peer sends on one connection in the byte-level model
MaxWireFrames == 2

\* numbers given to TestOption are counted in units of 1/Scale, so that
\* arguments between two whole numbers exist
Scale == 2
\* the largest magnitude of such a number, in units of 1/Scale
MaxArg == 3

(* --------------------------- program constants ------------------------ *)

RELAX_PROMPT == "Relax"
ACTION_PROMPT == "Action"
\* the seconds counter rolls over into minutes at this value
SecondsPerMinute == 60
\* the unset value of a timestamp, a duration, a socket
None == -1
\* packet types and the Data-Start event code
PT_DATA == 1
PT_EVENT == 5
EV_DATA_START == 2
\* body length of a Data frame that holds 25 channels at frame offset 23
DATA_BODY_LEN == 111
\* length of a packet header
HEADER_LEN == 12

VARIABLES
    socket_running,      \* self.socket_running
    timer_running,       \* self.timer_running
    start_time_stamp,    \* self.start_time_stamp (None or a timestamp)
    last_time_stamp,     \* self.last_time_stamp
    backlog_time_stamp,  \* self.backlog_time_stamp
    collection_duration, \* self.collection_duration
    prompt_dictionary,   \* self.prompt_dictionary: <<key, label>> in insertion order
    seconds,             \* self.seconds
    minutes,             \* self.minutes
    socket,              \* self.socket: id of the current socket object, 0 = none/unconnected
    sockState,           \* per socket object: "unused" | "connected" | "eof" | "closed"
    delivered,           \* frames the device has delivered so far
    file,                \* self.file: id of the current file object, 0 = none
    fileOpen,            \* per file object: is the handle open
    fileLines,           \* per file object: the timestamps of the lines written
    text_box,            \* the log sink: the line most recently inserted
    option,              \* the experiment definition the timeline was built from
    windowOpen,          \* FALSE after root.destroy()
    loops,               \* socket_loop threads: per id a record
    timers,              \* time_loop threads: per id a pc
    wire,                \* the bytes the peer sent that no recv has returned yet
    sent,                \* all the bytes the peer sends on the connection
    rd,                  \* the call of recvall in progress and its caller's position
    ret,                 \* what the last call of recvall returned
    options              \* Test.options: the TestOption objects of one test

vars == <<socket_running, timer_running, start_time_stamp, last_time_stamp,
          backlog_time_stamp, collection_duration, prompt_dictionary, seconds,
          minutes, socket, sockState, delivered, file, fileOpen, fileLines,
          text_box, option, windowOpen, loops, timers, wire, sent, rd, ret,
          options>>

\* the byte-level transport and its reader
wireVars == <<wire, sent, rd, ret>>

Sessions == 1..MaxSessions
Timers == 1..MaxTimers

(* ------------------------ TimelineBuilder ----------------------------- *)

\* dict assignment that appends an entry even when the key is present
DictSet_Append(d, k, v) == Append(d, <<k, v>>)

\* dict assignment in which the first write to a key wins
DictSet_KeepFirst(d, k, v) ==
    IF \E i \in 1..Len(d) : d[i][1] = k THEN d ELSE Append(d, <<k, v>>)

\* Python dict assignment d[k] = v: an existing key keeps its position and
\* gets the new value, a new key is appended.
DictSet(d, k, v) ==
    IF \E i \in 1..Len(d) : d[i][1] = k
    THEN [i \in 1..Len(d) |-> IF d[i][1] = k THEN <<k, v>> ELSE d[i]]
    ELSE Append(d, <<k, v>>)

DictKeys(d) == [i \in 1..Len(d) |-> d[i][1]]

DictHas(d, k) == \E i \in 1..Len(d) : d[i][1] = k

DictGet(d, k) == d[CHOOSE i \in 1..Len(d) : d[i][1] = k][2]

\* the for-loop of determine_collection_duration: n iterations still to run
RECURSIVE TimelineLoop(_, _, _, _)
TimelineLoop(d, last_timestamp, opt, n) ==
    IF n = 0 THEN <<d, last_timestamp>>
    ELSE LET time_till_act == opt.relax_time + last_timestamp
             time_till_rest == opt.action_time + time_till_act
             d1 == DictSet(d, time_till_act, ACTION_PROMPT)
             d2 == DictSet(d1, time_till_rest, RELAX_PROMPT)
         IN TimelineLoop(d2, time_till_rest, opt, n - 1)

\* BuildPromptDictionary without the entry at offset 0
BuildPromptDictionary_NoInitialRelax(opt) ==
    LET r == TimelineLoop(<<>>, 0, opt, opt.loop_times)
    IN DictSet(r[1], r[2] + opt.relax_time, RELAX_PROMPT)

\* BuildPromptDictionary with the entry after the loop left out
BuildPromptDictionary_NoTrailingRelax(opt) ==
    TimelineLoop(DictSet(<<>>, 0, RELAX_PROMPT), 0, opt, opt.loop_times)[1]

\* self.prompt_dictionary as determine_collection_duration leaves it
BuildPromptDictionary(opt) ==
    LET d0 == DictSet(<<>>, 0, RELAX_PROMPT)
        r == TimelineLoop(d0, 0, opt, opt.loop_times)
    IN DictSet(r[1], r[2] + opt.relax_time, RELAX_PROMPT)

\* determine_collection_duration returning the loop's last offset instead
\* of the dictionary's last key
determine_collection_duration_LoopEnd(opt) ==
    TimelineLoop(DictSet(<<>>, 0, RELAX_PROMPT), 0, opt, opt.loop_times)[2]

\* the value determine_collection_duration returns: the last key in insertion order
determine_collection_duration(opt) ==
    LET d == BuildPromptDictionary(opt) IN DictKeys(d)[Len(d)]


(* ------------------------- inputs and helpers ------------------------- *)

\* experiment definitions the user can select in the session model
SessionDefs ==
    { [relax_time |-> 1, action_time |-> 0, loop_times |-> 0],
      [relax_time |-> 1, action_time |-> 0, loop_times |-> 1] }

\* experiment definitions of the timeline model
TimelineDefs ==
    [relax_time : 0..MaxSpan, action_time : 0..MaxSpan, loop_times : 0..MaxLoops]

\* the global event-code lookup table self.DSI_EVENT_CODES
DSI_EVENT_CODES ==
    [c \in 1..10 |->
        CASE c = 1 -> "Greeting/Version"
          [] c = 2 -> "Data Start"
          [] c = 3 -> "Data Stop"
          [] c = 9 -> "Sensor Map"
          [] c = 10 -> "Data Rate"
          [] OTHER -> "Reserved"]

\* frames a peer can deliver: packet type (2 stands for every type other
\* than 1 and 5), body length, device timestamp, event code
BodyLens == {0, 4, DATA_BODY_LEN}
EventCodes == {0, 2, 3}
Frames ==
    { [kind |-> "frame", ptype |-> PT_DATA, blen |-> b, ts |-> t, code |-> 0] :
        b \in BodyLens, t \in 0..MaxTs }
    \cup
    { [kind |-> "frame", ptype |-> PT_EVENT, blen |-> b, ts |-> 0, code |-> c] :
        b \in {0, 4}, c \in EventCodes }
    \cup
    { [kind |-> "frame", ptype |-> 2, blen |-> b, ts |-> 0, code |-> 0] :
        b \in {0, 4} }

\* what one call of receive_and_handle_data can meet on the transport
Failures ==
    { [kind |-> "hdrfail", ptype |-> 0, blen |-> 0, ts |-> 0, code |-> 0],
      [kind |-> "bodyfail", ptype |-> 0, blen |-> 4, ts |-> 0, code |-> 0] }

FreeTimers == { t \in Timers : timers[t] = "none" }
FreeSessions == { s \in Sessions : loops[s].pc = "none" }
Lowest(S) == CHOOSE x \in S : \A y \in S : x <= y

\* the inputs the transport can produce for the current socket object: a
\* socket that is not connected, was closed or hit end of stream only fails;
\* the device delivers at most MaxFrames frames and at most MaxTimers
\* Data-Start events
Inputs ==
    IF socket = 0 \/ sockState[socket] # "connected"
    THEN { [kind |-> "hdrfail", ptype |-> 0, blen |-> 0, ts |-> 0, code |-> 0] }
    ELSE Failures \cup
         { f \in Frames :
             /\ delivered < MaxFrames
             /\ (f.ptype = PT_EVENT /\ f.code = EV_DATA_START /\ f.blen # 0)
                    => FreeTimers # {} }

\* a log line: its kind, its text argument and its number argument
Msg(kind, arg, n) == <<kind, arg, n>>

\* insert_text appends a line to the text box, of which the model keeps the
\* last line (a Tk call: the callers model that it raises once the window
\* is destroyed)
insert_text(tb, msg) == msg

\* the lookup with code 5 missing from the table
EventName_FiveUnknown(code) ==
    IF code \in DOMAIN DSI_EVENT_CODES /\ code # 5
    THEN DSI_EVENT_CODES[code] ELSE "UNKNOWN"

EventName(code) ==
    IF code \in DOMAIN DSI_EVENT_CODES THEN DSI_EVENT_CODES[code] ELSE "UNKNOWN"

(* ----------------------- receive_and_handle_data ---------------------- *)

\* The state one call of receive_and_handle_data leaves, for transport
\* input inp, as a record:
\*   res    "ok" (returned True) | "fail" (returned False) | "crash" (raised)
\*   tb     text_box          start, last   the device timestamps
\*   lines  fileLines         tr            timer_running
\*   spawn  a time_loop thread was started
\*   ss     sockState         dl            delivered
NoEffect(res) ==
    [res |-> res, tb |-> text_box, start |-> start_time_stamp,
     last |-> last_time_stamp, lines |-> fileLines, tr |-> timer_running,
     spawn |-> FALSE, ss |-> sockState, dl |-> delivered]

Consumed == delivered + 1

\* a failed read that also unsets the device timestamps
HandleReadFailure_ResetsStamps ==
    IF ~windowOpen
    THEN NoEffect("crash")
    ELSE [NoEffect("fail") EXCEPT !.tb = insert_text(text_box, Msg("NoData", "", 0)),
                                  !.start = None,
                                  !.last = None]

\* recvall returned None, for the header or for the body
HandleReadFailure ==
    LET ss1 == IF socket # 0 /\ sockState[socket] = "connected"
               THEN [sockState EXCEPT ![socket] = "eof"] ELSE sockState
    IN IF ~windowOpen
       THEN [NoEffect("crash") EXCEPT !.ss = ss1]
       ELSE [NoEffect("fail") EXCEPT !.ss = ss1,
                                     !.tb = insert_text(text_box, Msg("NoData", "", 0))]

\* recvall(0) returned b"", which the code takes for a failed read
HandleEmptyBody ==
    IF ~windowOpen
    THEN [NoEffect("crash") EXCEPT !.dl = Consumed]
    ELSE [NoEffect("fail") EXCEPT !.dl = Consumed,
                                  !.tb = insert_text(text_box, Msg("NoData", "", 0))]

\* an Event packet that starts the Clock whatever its code is
HandleEvent_AnyCode(code) ==
    IF ~windowOpen
    THEN [NoEffect("crash") EXCEPT !.dl = Consumed]
    ELSE LET tb1 == insert_text(text_box, Msg("Event", EventName(code), code))
         IN [NoEffect("ok") EXCEPT !.dl = Consumed,
                                   !.tb = insert_text(tb1, Msg("Beginning", "", 0)),
                                   !.tr = TRUE,
                                   !.spawn = TRUE]

\* packet_type == 5
HandleEvent(code) ==
    IF ~windowOpen
    THEN [NoEffect("crash") EXCEPT !.dl = Consumed]
    ELSE LET tb1 == insert_text(text_box, Msg("Event", EventName(code), code))
         IN IF code = EV_DATA_START
            THEN [NoEffect("ok") EXCEPT !.dl = Consumed,
                                        !.tb = insert_text(tb1, Msg("Beginning", "", 0)),
                                        !.tr = TRUE,
                                        !.spawn = TRUE]
            ELSE [NoEffect("ok") EXCEPT !.dl = Consumed, !.tb = tb1]

\* packet_type == 1
HandleData(ts, blen) ==
    LET start1 == IF start_time_stamp = None THEN ts ELSE start_time_stamp
        stamped == [NoEffect("crash") EXCEPT !.dl = Consumed,
                                             !.start = start1,
                                             !.last = ts]
    IN IF blen # DATA_BODY_LEN
       THEN stamped \* struct.unpack(">25f") raises
       ELSE IF file = 0 \/ ~fileOpen[file]
       THEN stamped \* write to a closed file raises
       ELSE [stamped EXCEPT !.res = "ok",
                            !.lines = [fileLines EXCEPT ![file] = Append(@, ts)]]

\* any other packet type: insert_text(textbox=...) raises TypeError
HandleReserved == [NoEffect("crash") EXCEPT !.dl = Consumed]

receive_and_handle_data(inp) ==
    IF inp.kind # "frame" THEN HandleReadFailure
    ELSE IF inp.blen = 0 THEN HandleEmptyBody
    ELSE IF inp.ptype = PT_EVENT THEN HandleEvent(inp.code)
    ELSE IF inp.ptype = PT_DATA THEN HandleData(inp.ts, inp.blen)
    ELSE HandleReserved

\* the assignments of one decode step, common to Streaming and Draining
ApplyDecode(r) ==
    /\ text_box' = r.tb
    /\ start_time_stamp' = r.start
    /\ last_time_stamp' = r.last
    /\ fileLines' = r.lines
    /\ timer_running' = r.tr
    /\ sockState' = r.ss
    /\ delivered' = r.dl
    /\ timers' = IF r.spawn
                 THEN [timers EXCEPT ![Lowest(FreeTimers)] = "tick"]
                 ELSE timers


(* ------------------------------ start() ------------------------------- *)

\* start() that sets the running flag before it knows the connection stands
start_RunningBeforeConnect(tb, connect_ok, opt) ==
    IF ~socket_running
    THEN IF ~connect_ok
         THEN /\ socket' = 0
              /\ text_box' = insert_text(tb, Msg("ConnectionRefused", "", 0))
              /\ socket_running' = TRUE
              /\ UNCHANGED <<sockState, file, fileOpen, fileLines,
                             collection_duration, prompt_dictionary, option,
                             timer_running, loops>>
         ELSE LET s == Lowest(FreeSessions) IN
              /\ FreeSessions # {}
              /\ socket' = s
              /\ sockState' = [sockState EXCEPT ![s] = "connected"]
              /\ text_box' = insert_text(insert_text(tb, Msg("SocketConnected", "", 0)),
                                         Msg("FileName", "", 0))
              /\ file' = s
              /\ fileOpen' = [fileOpen EXCEPT ![s] = TRUE]
              /\ fileLines' = [fileLines EXCEPT ![s] = <<>>]
              /\ option' = opt
              /\ prompt_dictionary' = BuildPromptDictionary(opt)
              /\ collection_duration' = determine_collection_duration(opt)
              /\ socket_running' = TRUE
              /\ loops' = [loops EXCEPT ![s] =
                              [pc |-> "streaming", failed |-> FALSE,
                               nominal |-> determine_collection_duration(opt)]]
              /\ UNCHANGED timer_running
    ELSE /\ socket_running' = FALSE
         /\ timer_running' = FALSE
         /\ text_box' = insert_text(tb, Msg("CollectionEnding", "", 0))
         /\ UNCHANGED <<socket, sockState, file, fileOpen, fileLines,
                        collection_duration, prompt_dictionary, option, loops>>

\* start(), called by the Start/Stop button or by time_loop, with the text
\* box as the caller left it, the outcome of socket.connect and the
\* experiment definition selected in the dropdowns.  It assigns everything
\* start() can change; the caller assigns the rest.
start(tb, connect_ok, opt) ==
    IF ~socket_running
    THEN IF ~connect_ok
         THEN \* open_socket() == False: 'Connection Refused', restart()
              /\ socket' = 0
              /\ text_box' = insert_text(tb, Msg("ConnectionRefused", "", 0))
              /\ UNCHANGED <<sockState, file, fileOpen, fileLines,
                             collection_duration, prompt_dictionary, option,
                             socket_running, timer_running, loops>>
         ELSE LET s == Lowest(FreeSessions) IN
              /\ FreeSessions # {}
              /\ socket' = s
              /\ sockState' = [sockState EXCEPT ![s] = "connected"]
              /\ text_box' = insert_text(insert_text(tb, Msg("SocketConnected", "", 0)),
                                         Msg("FileName", "", 0))
              /\ file' = s
              /\ fileOpen' = [fileOpen EXCEPT ![s] = TRUE]
              /\ fileLines' = [fileLines EXCEPT ![s] = <<>>]
              /\ option' = opt
              /\ prompt_dictionary' = BuildPromptDictionary(opt)
              /\ collection_duration' = determine_collection_duration(opt)
              /\ socket_running' = TRUE
              /\ loops' = [loops EXCEPT ![s] =
                              [pc |-> "streaming", failed |-> FALSE,
                               nominal |-> determine_collection_duration(opt)]]
              /\ UNCHANGED timer_running
    ELSE \* the stop branch
         /\ socket_running' = FALSE
         /\ timer_running' = FALSE
         /\ text_box' = insert_text(tb, Msg("CollectionEnding", "", 0))
         /\ UNCHANGED <<socket, sockState, file, fileOpen, fileLines,
                        collection_duration, prompt_dictionary, option, loops>>

\* the user presses the Start/Stop button
PressStart ==
    /\ windowOpen
    /\ \E connect_ok \in BOOLEAN, opt \in SessionDefs :
            start(text_box, connect_ok, opt)
    /\ UNCHANGED <<start_time_stamp, last_time_stamp, backlog_time_stamp,
                   seconds, minutes, delivered, windowOpen, timers>>
    /\ UNCHANGED wireVars
    /\ UNCHANGED options

\* on_closing(): the window is closed
on_closing ==
    /\ windowOpen
    /\ socket_running' = FALSE
    /\ timer_running' = FALSE
    /\ sockState' = IF socket # 0 THEN [sockState EXCEPT ![socket] = "closed"]
                    ELSE sockState
    /\ fileOpen' = IF file # 0 THEN [fileOpen EXCEPT ![file] = FALSE] ELSE fileOpen
    /\ windowOpen' = FALSE
    /\ UNCHANGED <<start_time_stamp, last_time_stamp, backlog_time_stamp,
                   collection_duration, prompt_dictionary, seconds, minutes,
                   socket, delivered, file, fileLines, text_box, option,
                   loops, timers>>
    /\ UNCHANGED wireVars
    /\ UNCHANGED options

(* ---------------------------- socket_loop ----------------------------- *)

SetPc(th, pc) == [loops EXCEPT ![th].pc = pc]

\* a - b on timestamps raises TypeError when one of them is None
CanSubtract(a, b) == a # None /\ b # None

\* the loop condition of Draining
Captured == last_time_stamp - start_time_stamp

\* where a decode step of the Streaming loop leads
AfterStreamingDecode(th, r) ==
    CASE r.res = "ok" -> loops
      [] r.res = "fail" -> [loops EXCEPT ![th].pc = "drain_enter", ![th].failed = TRUE]
      [] OTHER -> SetPc(th, "crashed")

\* where a decode step of the Draining loop leads
AfterDrainingDecode(th, r) ==
    CASE r.res = "ok" -> loops
      [] r.res = "fail" -> [loops EXCEPT ![th].pc = "closing", ![th].failed = TRUE]
      [] OTHER -> SetPc(th, "crashed")

\* one iteration of: while self.socket_running: if not receive_and_handle_data(): break
SocketStreaming(th) ==
    /\ loops[th].pc = "streaming"
    /\ IF socket_running
       THEN \E inp \in Inputs :
                LET r == receive_and_handle_data(inp) IN
                /\ ApplyDecode(r)
                /\ loops' = AfterStreamingDecode(th, r)
       ELSE /\ loops' = SetPc(th, "drain_enter")
            /\ UNCHANGED <<text_box, start_time_stamp, last_time_stamp, fileLines,
                           timer_running, sockState, delivered, timers>>
    /\ UNCHANGED <<socket_running, backlog_time_stamp, collection_duration,
                   prompt_dictionary, seconds, minutes, socket, file, fileOpen,
                   option, windowOpen>>
    /\ UNCHANGED wireVars
    /\ UNCHANGED options

\* the backlog announcement and self.backlog_time_stamp = self.last_time_stamp
SocketDrainEnter(th) ==
    /\ loops[th].pc = "drain_enter"
    /\ IF ~CanSubtract(last_time_stamp, start_time_stamp)
       THEN /\ loops' = SetPc(th, "crashed")
            /\ UNCHANGED <<text_box, backlog_time_stamp>>
       ELSE IF Captured < collection_duration
       THEN IF ~windowOpen
            THEN /\ loops' = SetPc(th, "crashed")
                 /\ UNCHANGED <<text_box, backlog_time_stamp>>
            ELSE /\ text_box' = insert_text(text_box, Msg("CapturingBacklog", "", 0))
                 /\ backlog_time_stamp' = last_time_stamp
                 /\ loops' = SetPc(th, "draining")
       ELSE /\ backlog_time_stamp' = last_time_stamp
            /\ loops' = SetPc(th, "draining")
            /\ UNCHANGED text_box
    /\ UNCHANGED <<socket_running, timer_running, start_time_stamp,
                   last_time_stamp, collection_duration, prompt_dictionary,
                   seconds, minutes, socket, sockState, delivered, file,
                   fileOpen, fileLines, option, windowOpen, timers>>
    /\ UNCHANGED wireVars
    /\ UNCHANGED options

\* one iteration of: while last - start < duration: if not receive_and_handle_data(): break
SocketDraining(th) ==
    /\ loops[th].pc = "draining"
    /\ IF ~CanSubtract(last_time_stamp, start_time_stamp)
       THEN /\ loops' = SetPc(th, "crashed")
            /\ UNCHANGED <<text_box, start_time_stamp, last_time_stamp, fileLines,
                           timer_running, sockState, delivered, timers>>
       ELSE IF Captured < collection_duration
       THEN \E inp \in Inputs :
                LET r == receive_and_handle_data(inp) IN
                /\ ApplyDecode(r)
                /\ loops' = AfterDrainingDecode(th, r)
       ELSE /\ loops' = SetPc(th, "closing")
            /\ UNCHANGED <<text_box, start_time_stamp, last_time_stamp, fileLines,
                           timer_running, sockState, delivered, timers>>
    /\ UNCHANGED <<socket_running, backlog_time_stamp, collection_duration,
                   prompt_dictionary, seconds, minutes, socket, file, fileOpen,
                   option, windowOpen>>
    /\ UNCHANGED wireVars
    /\ UNCHANGED options

\* self.socket.close(); self.file.close()
SocketClose(th) ==
    /\ loops[th].pc = "closing"
    /\ sockState' = IF socket # 0 THEN [sockState EXCEPT ![socket] = "closed"]
                    ELSE sockState
    /\ fileOpen' = IF file # 0 THEN [fileOpen EXCEPT ![file] = FALSE] ELSE fileOpen
    /\ loops' = SetPc(th, "summary")
    /\ UNCHANGED <<socket_running, timer_running, start_time_stamp,
                   last_time_stamp, backlog_time_stamp, collection_duration,
                   prompt_dictionary, seconds, minutes, socket, delivered, file,
                   fileLines, text_box, option, windowOpen, timers>>
    /\ UNCHANGED wireVars
    /\ UNCHANGED options

\* the four summary lines, the last of which the text box then shows
SummaryLines(tb) ==
    LET t1 == insert_text(tb, Msg("BacklogSeconds", "", last_time_stamp - backlog_time_stamp))
        t2 == insert_text(t1, Msg("CollectionBegan", "", start_time_stamp))
        t3 == insert_text(t2, Msg("BacklogBegan", "", backlog_time_stamp))
    IN insert_text(t3, Msg("BacklogEnded", "", last_time_stamp))

\* the summary is logged, the timestamps are reset, the end of the loop is logged
SocketSummary(th) ==
    /\ loops[th].pc = "summary"
    /\ IF \/ ~CanSubtract(last_time_stamp, backlog_time_stamp)
          \/ start_time_stamp = None
          \/ ~windowOpen
       THEN /\ loops' = SetPc(th, "crashed")
            /\ UNCHANGED <<text_box, start_time_stamp, last_time_stamp>>
       ELSE /\ text_box' = insert_text(SummaryLines(text_box), Msg("LoopEnding", "", 0))
            /\ start_time_stamp' = None
            /\ last_time_stamp' = None
            /\ loops' = SetPc(th, "done")
    /\ UNCHANGED <<socket_running, timer_running, backlog_time_stamp,
                   collection_duration, prompt_dictionary, seconds, minutes,
                   socket, sockState, delivered, file, fileOpen, fileLines,
                   option, windowOpen, timers>>
    /\ UNCHANGED wireVars
    /\ UNCHANGED options

socket_loop(th) ==
    \/ SocketStreaming(th)
    \/ SocketDrainEnter(th)
    \/ SocketDraining(th)
    \/ SocketClose(th)
    \/ SocketSummary(th)

(* ----------------------------- time_loop ------------------------------ *)

\* seconds elapsed on the Clock's display
Elapsed == SecondsPerMinute * minutes + seconds

\* one pass of the while body up to time.sleep(1), or the exit of the loop;
\* cap bounds the ticks explored
TimeTick(t, cap) ==
    /\ timers[t] = "tick"
    /\ IF timer_running
       THEN LET rolled == (seconds + 1 = SecondsPerMinute)
                seconds1 == IF rolled THEN 0 ELSE seconds + 1
            IN
            /\ Elapsed < cap
            /\ seconds' = seconds1
            /\ minutes' = IF rolled THEN minutes + 1 ELSE minutes
            /\ IF ~windowOpen
               THEN /\ timers' = [timers EXCEPT ![t] = "crashed"]
                    /\ UNCHANGED text_box
               ELSE /\ timers' = [timers EXCEPT ![t] = "sleep"]
                    /\ text_box' =
                         IF DictHas(prompt_dictionary, seconds1)
                         THEN insert_text(text_box,
                                 Msg("Prompt", DictGet(prompt_dictionary, seconds1), seconds1))
                         ELSE text_box
       ELSE /\ seconds' = 0
            /\ minutes' = 0
            /\ timers' = [timers EXCEPT ![t] = "done"]
            /\ UNCHANGED text_box
    /\ UNCHANGED <<socket_running, timer_running, start_time_stamp,
                   last_time_stamp, backlog_time_stamp, collection_duration,
                   prompt_dictionary, socket, sockState, delivered, file,
                   fileOpen, fileLines, option, windowOpen, loops>>
    /\ UNCHANGED wireVars
    /\ UNCHANGED options

\* after time.sleep(1): if self.seconds == self.collection_duration: self.start()
TimeWake(t, defs) ==
    /\ timers[t] = "sleep"
    /\ IF seconds = collection_duration
       THEN IF ~windowOpen
            THEN /\ timers' = [timers EXCEPT ![t] = "crashed"]
                 /\ UNCHANGED <<socket_running, timer_running, collection_duration,
                                prompt_dictionary, socket, sockState, file,
                                fileOpen, fileLines, text_box, option, loops>>
            ELSE /\ \E connect_ok \in BOOLEAN, opt \in defs :
                        start(insert_text(text_box, Msg("TimerExpired", "", 0)),
                              connect_ok, opt)
                 /\ timers' = [timers EXCEPT ![t] = "tick"]
       ELSE /\ timers' = [timers EXCEPT ![t] = "tick"]
            /\ UNCHANGED <<socket_running, timer_running, collection_duration,
                           prompt_dictionary, socket, sockState, file,
                           fileOpen, fileLines, text_box, option, loops>>
    /\ UNCHANGED <<start_time_stamp, last_time_stamp, backlog_time_stamp,
                   seconds, minutes, delivered, windowOpen>>
    /\ UNCHANGED wireVars
    /\ UNCHANGED options

time_loop(t, cap, defs) ==
    \/ TimeTick(t, cap)
    \/ TimeWake(t, defs)

(* ------------------------- the session model -------------------------- *)

NoLoop == [pc |-> "none", failed |-> FALSE, nominal |-> None]

\* no decode step has completed
NoStep == [res |-> "none", start |-> 0, end |-> 0]

\* no call of recvall is in progress
NoCall == [pc |-> "idle", count |-> 0, received |-> 0, data |-> <<>>,
           header |-> <<>>, pos0 |-> 0, frame0 |-> 0, last |-> NoStep]

\* recvall has not returned yet
NoReturn == [ok |-> FALSE, data |-> <<>>, count |-> 0, pos0 |-> 0]

\* the byte-level transport is not modelled: nothing is sent, nothing is read
WireIdle ==
    /\ wire = <<>>
    /\ sent = <<>>
    /\ rd = NoCall
    /\ ret = NoReturn

\* the definition a TestOption is constructed with
DefaultOption == [relax_time |-> 0, action_time |-> 0, loop_times |-> 0]

\* the state DataCollectionGUI.__init__ leaves, with a file name entered;
\* the empty sequence stands for the prompt dictionary that is not built yet
Init ==
    /\ socket_running = FALSE
    /\ timer_running = FALSE
    /\ start_time_stamp = None
    /\ last_time_stamp = None
    /\ backlog_time_stamp = None
    /\ collection_duration = None
    /\ prompt_dictionary = <<>>
    /\ seconds = 0
    /\ minutes = 0
    /\ socket = 0
    /\ sockState = [s \in Sessions |-> "unused"]
    /\ delivered = 0
    /\ file = 0
    /\ fileOpen = [s \in Sessions |-> FALSE]
    /\ fileLines = [s \in Sessions |-> <<>>]
    /\ text_box = Msg("EnterFilename", "", 0)
    /\ option = DefaultOption
    /\ windowOpen = TRUE
    /\ loops = [s \in Sessions |-> NoLoop]
    /\ timers = [t \in Timers |-> "none"]
    /\ WireIdle
    /\ options = {}

Next ==
    \/ PressStart
    \/ on_closing
    \/ \E th \in Sessions : socket_loop(th)
    \/ \E t \in Timers : time_loop(t, MaxTicks, SessionDefs)

Spec == Init /\ [][Next]_vars


\* every socket_loop thread that can take a step eventually takes one: the
\* threads are scheduled by the operating system, and a read of the
\* transport returns with a frame or with a failure
ThreadsProgress == \A th \in Sessions : WF_vars(socket_loop(th))

\* the session model with the acquisition threads making progress
SpecProgress == Init /\ [][Next]_vars /\ ThreadsProgress


(* -------------------------- the Clock model --------------------------- *)

\* nominal durations of the Clock model
ClockDurations == {0, 1, 2, SecondsPerMinute - 1, SecondsPerMinute, SecondsPerMinute + 1}

ClockDef(d) == [relax_time |-> d, action_time |-> 0, loop_times |-> 0]

\* the state right after the first session decoded its Data-Start event:
\* start() ran its start branch for a definition of duration d, the
\* acquisition loop is Streaming and has just started the time_loop thread
InitClock ==
    \E d \in ClockDurations :
        /\ socket_running = TRUE
        /\ timer_running = TRUE
        /\ start_time_stamp = None
        /\ last_time_stamp = None
        /\ backlog_time_stamp = None
        /\ option = ClockDef(d)
        /\ prompt_dictionary = BuildPromptDictionary(ClockDef(d))
        /\ collection_duration = determine_collection_duration(ClockDef(d))
        /\ seconds = 0
        /\ minutes = 0
        /\ socket = 1
        /\ sockState = [s \in Sessions |-> IF s = 1 THEN "connected" ELSE "unused"]
        /\ delivered = 1
        /\ file = 1
        /\ fileOpen = [s \in Sessions |-> s = 1]
        /\ fileLines = [s \in Sessions |-> <<>>]
        /\ text_box = Msg("Beginning", "", 0)
        /\ windowOpen = TRUE
        /\ loops = [s \in Sessions |->
                      IF s = 1
                      THEN [pc |-> "streaming", failed |-> FALSE,
                            nominal |-> determine_collection_duration(ClockDef(d))]
                      ELSE NoLoop]
        /\ timers = [t \in Timers |-> IF t = 1 THEN "tick" ELSE "none"]
        /\ WireIdle
        /\ options = {}

\* the Clock is left running: only time_loop takes steps
NextClock == \E t \in Timers : time_loop(t, MaxClockTicks, {option})

SpecClock == InitClock /\ [][NextClock]_vars

(* ------------------- the transport, byte by byte ---------------------- *)

Min(a, b) == IF a <= b THEN a ELSE b

\* int.from_bytes(bytes, byteorder="big", signed=False)
RECURSIVE BigEndian(_)
BigEndian(bytes) ==
    IF bytes = <<>> THEN 0
    ELSE 256 * BigEndian(SubSeq(bytes, 1, Len(bytes) - 1)) + bytes[Len(bytes)]

\* a sequence of n zero bytes
Zeros(n) == [i \in 1..n |-> 0]

\* a frame on the wire: the 12-byte header ("@ABCD", packet type, body length
\* big-endian, packet number) and a body of n bytes that begins with first4
WireFrame(ptype, n, first4) ==
    <<64, 65, 66, 67, 68, ptype, n \div 256, n % 256, 0, 0, 0, 0>>
        \o SubSeq(first4 \o Zeros(n), 1, n)

\* the frames the peer sends: a Data-Start and a Data-Stop event, events
\* with the codes 0, 5 and 11, an event with a long body, an event with an empty body, a Data frame of 25
\* channels, a Data frame with a short body, a frame of another type
WireFrames ==
    { WireFrame(PT_EVENT, 4, <<0, 0, 0, 2>>),
      WireFrame(PT_EVENT, 4, <<0, 0, 0, 3>>),
      WireFrame(PT_EVENT, 4, <<0, 0, 0, 0>>),
      WireFrame(PT_EVENT, 4, <<0, 0, 0, 5>>),
      WireFrame(PT_EVENT, 4, <<0, 0, 0, 11>>),
      WireFrame(PT_EVENT, 256, <<0, 0, 0, 3>>),
      WireFrame(PT_EVENT, 0, <<>>),
      WireFrame(PT_DATA, DATA_BODY_LEN, <<0, 0, 0, 1>>),
      WireFrame(PT_DATA, 4, <<0, 0, 0, 2>>),
      WireFrame(2, 4, <<0, 0, 0, 0>>) }

\* the streams of 1..n frames
RECURSIVE WireStreams(_)
WireStreams(n) ==
    IF n = 0 THEN {}
    ELSE WireFrames \cup { s \o f : s \in WireStreams(n - 1), f \in WireFrames }

\* the peer closes the connection after the last frame or that many bytes
\* before its end
WireCuts == {0, 2, 14}

\* the position of the reader in the stream: the bytes recv has returned
WirePos == Len(sent) - Len(wire)

\* the argument of self.socket.recv, with the bytes already received not
\* taken off
RecvLimit_Count(count, received) == count

\* the argument of self.socket.recv: the largest chunk it may return
RecvLimit(count, received) == count - received

\* recvall(count) is entered; ph tells the caller: "hdr" or "body", frame0
\* where the frame being decoded begins, last the decode step before
CallRecvall(ph, count, header, frame0, last) ==
    [pc |-> ph, count |-> count, received |-> 0, data |-> <<>>,
     header |-> header, pos0 |-> WirePos, frame0 |-> frame0, last |-> last]

\* the frame-level variables, which a step inside recvall leaves alone
frameVars == <<socket_running, timer_running, start_time_stamp, last_time_stamp,
               backlog_time_stamp, collection_duration, prompt_dictionary,
               seconds, minutes, socket, sockState, delivered, file, fileOpen,
               fileLines, text_box, option, windowOpen, loops, timers>>

\* one pass of the while loop of recvall in which recv returns a chunk: any
\* number of bytes from 1 to the limit, as the transport happens to split
\* the stream
RecvChunk ==
    /\ rd.pc \in {"hdr", "body"}
    /\ rd.received < rd.count
    /\ wire # <<>>
    /\ \E k \in 1..Min(RecvLimit(rd.count, rd.received), Len(wire)) :
          /\ rd' = [rd EXCEPT !.received = @ + k,
                              !.data = @ \o SubSeq(wire, 1, k)]
          /\ wire' = SubSeq(wire, k + 1, Len(wire))
    /\ UNCHANGED <<sent, ret>>
    /\ UNCHANGED frameVars
    /\ UNCHANGED options

\* one pass in which recv raises (an I/O error) or returns b"" (the peer
\* closed the connection and every byte was read): recvall returns None
RecvFail ==
    /\ rd.pc \in {"hdr", "body"}
    /\ rd.received < rd.count
    /\ \E cause \in {"error", "closed"} : cause = "closed" => wire = <<>>
    /\ ret' = [ok |-> FALSE, data |-> <<>>, count |-> rd.count, pos0 |-> rd.pos0]
    /\ rd' = [rd EXCEPT !.pc = IF rd.pc = "hdr" THEN "hdr_ret" ELSE "body_ret"]
    /\ UNCHANGED <<wire, sent>>
    /\ UNCHANGED frameVars
    /\ UNCHANGED options

\* the loop condition received < count fails: recvall returns data
RecvReturn ==
    /\ rd.pc \in {"hdr", "body"}
    /\ rd.received >= rd.count
    /\ ret' = [ok |-> TRUE, data |-> rd.data, count |-> rd.count, pos0 |-> rd.pos0]
    /\ rd' = [rd EXCEPT !.pc = IF rd.pc = "hdr" THEN "hdr_ret" ELSE "body_ret"]
    /\ UNCHANGED <<wire, sent>>
    /\ UNCHANGED frameVars
    /\ UNCHANGED options

recvall == RecvChunk \/ RecvFail \/ RecvReturn

\* Python's truth value of what recvall returned: None and b"" are false
Truthy(r) == r.ok /\ r.data # <<>>

packet_type(header) == header[6]

data_length(header) == 256 * header[7] + header[8]

\* the fields receive_and_handle_data takes from data = header + body; the
\* 4-byte float timestamp of a Data packet is modelled by the big-endian
\* number its bytes spell
ParseFrame(header, body) ==
    LET data == header \o body
        field == SubSeq(data, 13, Min(16, Len(data)))
    IN [kind |-> "frame",
        ptype |-> packet_type(header),
        blen |-> Len(body),
        ts |-> IF packet_type(header) = PT_DATA THEN BigEndian(field) ELSE 0,
        code |-> IF packet_type(header) = PT_EVENT THEN BigEndian(field) ELSE 0]

\* receive_and_handle_data after recvall(12) returned, in the Streaming loop
\* of thread th
DecodeHeader(th) ==
    /\ loops[th].pc = "streaming"
    /\ rd.pc = "hdr_ret"
    /\ IF ~Truthy(ret)
       THEN LET r == receive_and_handle_data(
                        [kind |-> "hdrfail", ptype |-> 0, blen |-> 0,
                         ts |-> 0, code |-> 0]) IN
            /\ ApplyDecode(r)
            /\ loops' = AfterStreamingDecode(th, r)
            /\ rd' = [rd EXCEPT !.pc = "stopped", !.last = NoStep]
       ELSE /\ rd' = CallRecvall("body", data_length(ret.data), ret.data,
                                   rd.frame0, rd.last)
            /\ UNCHANGED <<text_box, start_time_stamp, last_time_stamp, fileLines,
                           timer_running, sockState, delivered, timers, loops>>
    /\ UNCHANGED <<wire, sent, ret>>
    /\ UNCHANGED options
    /\ UNCHANGED <<socket_running, backlog_time_stamp, collection_duration,
                   prompt_dictionary, seconds, minutes, socket, file, fileOpen,
                   option, windowOpen>>

\* receive_and_handle_data after recvall(data_length) returned: the packet
\* is handled, and after a True result the Streaming loop reads the next
\* header
DecodeBody(th) ==
    /\ loops[th].pc = "streaming"
    /\ rd.pc = "body_ret"
    /\ LET inp == IF ~ret.ok
                  THEN [kind |-> "bodyfail", ptype |-> 0, blen |-> 4,
                        ts |-> 0, code |-> 0]
                  ELSE ParseFrame(rd.header, ret.data)
           r == receive_and_handle_data(inp)
           step == IF ret.ok
                   THEN [res |-> r.res, start |-> rd.frame0, end |-> WirePos]
                   ELSE NoStep
       IN /\ ApplyDecode(r)
          /\ loops' = AfterStreamingDecode(th, r)
          /\ rd' = IF r.res = "ok" /\ socket_running
                   THEN CallRecvall("hdr", HEADER_LEN, <<>>, WirePos, step)
                   ELSE [rd EXCEPT !.pc = "stopped", !.last = step]
    /\ UNCHANGED <<wire, sent, ret>>
    /\ UNCHANGED options
    /\ UNCHANGED <<socket_running, backlog_time_stamp, collection_duration,
                   prompt_dictionary, seconds, minutes, socket, file, fileOpen,
                   option, windowOpen>>

\* the state after a successful start(): the acquisition loop of session 1
\* is Streaming and has entered recvall(12); the peer sends a stream of
\* frames and closes the connection
InitWire ==
    \E s \in WireStreams(MaxWireFrames), cut \in WireCuts :
        LET opt == [relax_time |-> 1, action_time |-> 0, loop_times |-> 1] IN
        /\ sent = SubSeq(s, 1, Len(s) - cut)
        /\ wire = sent
        /\ rd = [pc |-> "hdr", count |-> HEADER_LEN, received |-> 0, data |-> <<>>,
                 header |-> <<>>, pos0 |-> 0, frame0 |-> 0, last |-> NoStep]
        /\ ret = NoReturn
        /\ socket_running = TRUE
        /\ timer_running = FALSE
        /\ start_time_stamp = None
        /\ last_time_stamp = None
        /\ backlog_time_stamp = None
        /\ option = opt
        /\ prompt_dictionary = BuildPromptDictionary(opt)
        /\ collection_duration = determine_collection_duration(opt)
        /\ seconds = 0
        /\ minutes = 0
        /\ socket = 1
        /\ sockState = [x \in Sessions |-> IF x = 1 THEN "connected" ELSE "unused"]
        /\ delivered = 0
        /\ file = 1
        /\ fileOpen = [x \in Sessions |-> x = 1]
        /\ fileLines = [x \in Sessions |-> <<>>]
        /\ text_box = Msg("FileName", "", 0)
        /\ windowOpen = TRUE
        /\ loops = [x \in Sessions |->
                      IF x = 1
                      THEN [pc |-> "streaming", failed |-> FALSE,
                            nominal |-> determine_collection_duration(opt)]
                      ELSE NoLoop]
        /\ timers = [t \in Timers |-> "none"]
        /\ options = {}

NextWire ==
    \/ recvall
    \/ \E th \in Sessions : DecodeHeader(th)
    \/ \E th \in Sessions : DecodeBody(th)

SpecWire == InitWire /\ [][NextWire]_vars

(* ------------------------- the timeline model ------------------------- *)

\* determine_collection_duration applied to a definition, as start() does
BuildTimeline(opt) ==
    /\ option' = opt
    /\ prompt_dictionary' = BuildPromptDictionary(opt)
    /\ collection_duration' = determine_collection_duration(opt)
    /\ UNCHANGED <<socket_running, timer_running, start_time_stamp,
                   last_time_stamp, backlog_time_stamp, seconds, minutes,
                   socket, sockState, delivered, file, fileOpen, fileLines,
                   text_box, windowOpen, loops, timers>>
    /\ UNCHANGED wireVars
    /\ UNCHANGED options

NextTimeline == \E opt \in TimelineDefs : BuildTimeline(opt)

SpecTimeline == Init /\ [][NextTimeline]_vars


(* ------------------------- the option model --------------------------- *)

\* the numeric arguments of add_option and update_option, in units of 1/Scale
Numbers == (0 - MaxArg)..MaxArg

\* the whole numbers among them, as counts
Counts == 0..(MaxArg \div Scale)

\* the whole numbers of seconds among them, which options are added with
WholeSeconds == { x \in 0..MaxArg : x % Scale = 0 }

\* the names an option can have
OptionNames == {"opt1", "opt2"}

\* float(x) of a number: the same number
float(x) == x

\* int(x) of a number: its whole part, rounded towards zero, as a count
int(x) == IF x >= 0 THEN x \div Scale ELSE 0 - ((0 - x) \div Scale)

\* TestOption(option_name, explanation, relax_time, action_time, loop_times):
\* the values are stored as they are given; explanation, a text, is left out
TestOption(name, action_time, relax_time, loop_times) ==
    [name |-> name, action_time |-> action_time, relax_time |-> relax_time,
     loop_times |-> loop_times]

\* TestOption.update_vals
update_vals(o, action_time, relax_time, loop_times) ==
    [o EXCEPT !.action_time = IF float(action_time) >= 0
                              THEN float(action_time) ELSE o.action_time,
              !.relax_time = IF float(relax_time) >= 0
                             THEN float(relax_time) ELSE o.relax_time,
              !.loop_times = IF int(loop_times) >= 0
                             THEN int(loop_times) ELSE o.loop_times]

\* the variables the option model leaves alone
sessionVars == <<socket_running, timer_running, start_time_stamp, last_time_stamp,
                 backlog_time_stamp, collection_duration, prompt_dictionary,
                 seconds, minutes, socket, sockState, delivered, file, fileOpen,
                 fileLines, text_box, option, windowOpen, loops, timers>>

\* Test.add_option with values that satisfy the definition invariant: a
\* name that is present is refused
add_option(name, action_time, relax_time, loop_times) ==
    /\ options' = IF \E o \in options : o.name = name
                  THEN options
                  ELSE options \cup {TestOption(name, action_time, relax_time, loop_times)}
    /\ UNCHANGED sessionVars
    /\ UNCHANGED wireVars

\* Test.update_option: a name that is not present is refused
update_option(name, relax_time, action_time, loop_times) ==
    /\ options' = { IF o.name = name
                    THEN update_vals(o, action_time, relax_time, loop_times)
                    ELSE o : o \in options }
    /\ UNCHANGED sessionVars
    /\ UNCHANGED wireVars

NextOption ==
    \/ \E name \in OptionNames, a, r \in WholeSeconds, l \in Counts :
           add_option(name, a, r, l)
    \/ \E name \in OptionNames, r, a, l \in Numbers :
           update_option(name, r, a, l)

SpecOption == Init /\ [][NextOption]_vars

(* ------------------------------ claims -------------------------------- *)

ActivePcs == {"streaming", "drain_enter", "draining", "closing", "summary"}
ActiveLoops == { th \in Sessions : loops[th].pc \in ActivePcs }
TimelineBuilt == collection_duration # None

\* the timeline the stated algorithm gives for relax r, action a, loops L
StatedTimeline(r, a, L) ==
    [i \in 1..(2 * L + 2) |->
        IF i = 1 THEN <<0, RELAX_PROMPT>>
        ELSE IF i = 2 * L + 2 THEN <<L * (r + a) + r, RELAX_PROMPT>>
        ELSE IF i % 2 = 0 THEN <<((i \div 2) - 1) * (r + a) + r, ACTION_PROMPT>>
        ELSE <<(i \div 2) * (r + a), RELAX_PROMPT>>]

\* C9: for every definition with relax > 0 and action > 0 the built timeline
\* is exactly: Relax at 0; for i = 1..L the action prompt at
\* (i-1)*(relax+action)+relax and Relax at i*(relax+action); Relax at
\* L*(relax+action)+relax; no other keys.  For relax 2, action 3, loops 2
\* the keys are 0,2,5,7,10,12 and the nominal duration is 12.
C9_TimelineFollowsAlgorithm ==
    (TimelineBuilt /\ option.relax_time > 0 /\ option.action_time > 0) =>
        /\ prompt_dictionary =
               StatedTimeline(option.relax_time, option.action_time, option.loop_times)
        /\ (option = [relax_time |-> 2, action_time |-> 3, loop_times |-> 2]) =>
               /\ DictKeys(prompt_dictionary) = <<0, 2, 5, 7, 10, 12>>
               /\ collection_duration = 12

C9_Witness ==
    /\ TimelineBuilt
    /\ option = [relax_time |-> 2, action_time |-> 3, loop_times |-> 2]
    /\ Len(prompt_dictionary) = 6

\* C10: for every definition (relax, action, loops >= 0, coinciding offsets
\* included) the nominal duration is L*(relax+action)+relax, it is the
\* largest key, and the keys are strictly increasing in insertion order.
C10_NominalDurationIsLastAndLargest ==
    TimelineBuilt =>
        LET keys == DictKeys(prompt_dictionary) IN
        /\ collection_duration =
               option.loop_times * (option.relax_time + option.action_time)
                   + option.relax_time
        /\ \A i \in 1..Len(keys) : keys[i] <= collection_duration
        /\ \A i, j \in 1..Len(keys) : i < j => keys[i] < keys[j]

C10_Witness ==
    /\ TimelineBuilt
    /\ option.loop_times = 2
    /\ option.action_time = 0
    /\ option.relax_time = 3
    /\ Len(prompt_dictionary) = 4

\* the number of entries of the timeline built for relax r, action a, loops L:
\* offsets that coincide share one entry
TimelineEntries(r, a, L) ==
    IF r > 0 /\ a > 0 THEN 2 * L + 2
    ELSE IF r > 0 THEN L + 2
    ELSE IF a > 0 THEN L + 1
    ELSE 1

\* C11 as stated: every built timeline has exactly 2L + 2 entries.
C11_Stated_AlwaysTwoLPlusTwo ==
    TimelineBuilt => Len(prompt_dictionary) = 2 * option.loop_times + 2

\* C11: the built timeline has exactly 2L + 2 entries when relax > 0 and
\* action > 0; when offsets coincide they share one entry, so it has L + 2
\* entries for action = 0 < relax, L + 1 for relax = 0 < action and 1 when
\* both are 0; it never has more than 2L + 2.
C11_EntryCount ==
    TimelineBuilt =>
        /\ Len(prompt_dictionary) =
               TimelineEntries(option.relax_time, option.action_time, option.loop_times)
        /\ Len(prompt_dictionary) <= 2 * option.loop_times + 2

C11_Witness ==
    /\ TimelineBuilt
    /\ option = [relax_time |-> 0, action_time |-> 2, loop_times |-> 3]
    /\ Len(prompt_dictionary) = 4

\* C12 as stated: for loopCount = 0 the timeline is the single entry Relax at
\* relaxSeconds and the nominal duration is relaxSeconds.
C12_Stated_SingleEntry ==
    (TimelineBuilt /\ option.loop_times = 0) =>
        /\ prompt_dictionary = << <<option.relax_time, RELAX_PROMPT>> >>
        /\ collection_duration = option.relax_time

\* C12: for loopCount = 0 the timeline is Relax at 0 followed by Relax at
\* relaxSeconds (one entry when relaxSeconds = 0, two otherwise) and the
\* nominal duration is relaxSeconds.
C12_ZeroLoops ==
    (TimelineBuilt /\ option.loop_times = 0) =>
        /\ prompt_dictionary =
               IF option.relax_time = 0
               THEN << <<0, RELAX_PROMPT>> >>
               ELSE << <<0, RELAX_PROMPT>>, <<option.relax_time, RELAX_PROMPT>> >>
        /\ collection_duration = option.relax_time

C12_Witness ==
    /\ TimelineBuilt
    /\ option = [relax_time |-> 3, action_time |-> 1, loop_times |-> 0]
    /\ Len(prompt_dictionary) = 2


\* a frame of a packet type other than 1 and 5, delivered with its body
ReservedFrames ==
    { f \in Frames : f.ptype # PT_DATA /\ f.ptype # PT_EVENT /\ f.blen # 0 }

\* C1: whenever a socket_loop closes the socket and the file, the captured
\* span (last - start device timestamp) is at that moment at least the
\* session's nominal duration, or a decode step of that session failed.
C1_NoEarlyClose ==
    [][\A th \in Sessions :
          (loops[th].pc = "closing" /\ loops'[th].pc = "summary") =>
              \/ loops[th].failed
              \/ /\ CanSubtract(last_time_stamp, start_time_stamp)
                 /\ Captured >= loops[th].nominal]_vars

\* C2: a session that decoded a Data-Start event and then met the closed
\* transport before any Data packet does not crash.
C2_CloseBeforeDataDoesNotCrash ==
    \A th \in Sessions :
        (/\ loops[th].failed
         /\ fileLines[th] = <<>>
         /\ start_time_stamp = None
         /\ last_time_stamp = None
         /\ timers[1] # "none"
         /\ windowOpen)
            => loops[th].pc # "crashed"

\* C3: in Streaming and in Draining, a completely delivered frame whose
\* packet type is neither 1 nor 5 is decoded with success and leaves the
\* timestamps and the persisted output unchanged.
C3_ReservedPacketIsSkipped ==
    \A th \in Sessions :
        (loops[th].pc \in {"streaming", "draining"} /\ windowOpen) =>
            \A f \in Inputs \cap ReservedFrames :
                LET r == receive_and_handle_data(f) IN
                /\ r.res = "ok"
                /\ r.start = start_time_stamp
                /\ r.last = last_time_stamp
                /\ r.lines = fileLines

\* C4: no ended acquisition loop leaves the output file it opened open.
C4_FileClosedOnEveryExit ==
    \A th \in Sessions :
        loops[th].pc \in {"done", "crashed"} => ~fileOpen[th]

\* C5: once the Clock has ticked as many times as the nominal duration and
\* is back at the head of its loop, it has cleared the running flags.
C5_ClockSignalsAtNominalDuration ==
    \A t \in Timers :
        (timers[t] = "tick" /\ Elapsed >= 1 /\ Elapsed = collection_duration)
            => (~timer_running /\ ~socket_running)

\* C6: a step of the Clock after its sleep never opens a transport
\* connection, never opens an output file and never starts an acquisition
\* loop.
C6_ClockOnlyClearsRunning ==
    [][\A t \in Timers :
          (timers[t] = "sleep" /\ timers'[t] # "sleep") =>
              /\ sockState' = sockState
              /\ fileOpen' = fileOpen
              /\ fileLines' = fileLines
              /\ loops' = loops]_vars

\* C7: at most one acquisition loop is active at any time.
C7_OneAcquisitionLoop == Cardinality(ActiveLoops) <= 1

\* C8: once a session has reached Closed and no acquisition loop is active,
\* the running flag is clear, so that the next start request takes the
\* start branch of start().
C8_ClosedSessionAcceptsStart ==
    (/\ \E th \in Sessions : loops[th].pc = "done"
     /\ ActiveLoops = {}
     /\ windowOpen)
        => ~socket_running

\* recvall has just returned to receive_and_handle_data
RecvallReturned == rd.pc \in {"hdr_ret", "body_ret"}

\* C13: whenever recvall(n) has returned, it returned either None or exactly
\* n bytes: the n bytes of the stream that followed the position at which
\* it was called, with the reader now at the first byte after them,
\* however recv split the stream into chunks; and it returned None whenever
\* the stream ended before n bytes were delivered.
C13_RecvallExactOrNone ==
    RecvallReturned =>
        /\ ret.ok =>
              /\ Len(ret.data) = ret.count
              /\ ret.pos0 + ret.count <= Len(sent)
              /\ ret.data = SubSeq(sent, ret.pos0 + 1, ret.pos0 + ret.count)
              /\ WirePos = ret.pos0 + ret.count
        /\ ~ret.ok => ret.data = <<>> /\ WirePos < ret.pos0 + ret.count
        /\ Len(sent) < ret.pos0 + ret.count => ~ret.ok

C13_Witness ==
    /\ rd.pc = "body_ret"
    /\ ret.ok
    /\ ret.count = DATA_BODY_LEN
    /\ ret.pos0 > HEADER_LEN
    /\ wire = <<>>

\* a decode step that read a complete frame has just ended
JustDecoded ==
    /\ rd.last.res # "none"
    /\ rd.last.end = WirePos
    /\ rd.pc = "stopped" \/ (rd.pc = "hdr" /\ rd.received = 0)

\* the header fields of the frame the peer sent at position p of the stream
SentType(p) == sent[p + 6]
SentLength(p) == 256 * sent[p + 7] + sent[p + 8]
SentCode(p) == BigEndian(SubSeq(sent, p + 13, p + 16))

\* C14: a decode step that read a complete frame consumed exactly 12 + N
\* bytes, N = 256*header[6] + header[7]; it handled the frame by header[5]
\* alone: 5 as an Event whose code is the big-endian number at offsets
\* 12..15, 1 as Data, every other value as Reserved; and it succeeded, so
\* that the frame after it is decoded from its own bytes.
C14_DecodeConsumesOneFrame ==
    JustDecoded =>
        LET p == rd.last.start IN
        /\ rd.last.end - p = HEADER_LEN + SentLength(p)
        /\ (SentType(p) = PT_EVENT /\ SentLength(p) >= 4) =>
               text_box = IF SentCode(p) = EV_DATA_START
                          THEN Msg("Beginning", "", 0)
                          ELSE Msg("Event", EventName(SentCode(p)), SentCode(p))
        /\ (SentType(p) = PT_DATA /\ SentLength(p) >= 4) =>
               last_time_stamp = SentCode(p)
        /\ (SentType(p) \notin {PT_DATA, PT_EVENT} /\ SentLength(p) > 0) =>
               rd.last.res = "ok"

\* the acquisition loop th is about to call receive_and_handle_data: it is
\* Streaming with the running flag set, or Draining with captured < duration
Decoding(th) ==
    \/ loops[th].pc = "streaming" /\ socket_running
    \/ /\ loops[th].pc = "draining"
       /\ CanSubtract(last_time_stamp, start_time_stamp)
       /\ Captured < collection_duration

\* C15: every decode step of a session, in Streaming and in Draining, that
\* decodes a Data packet appends exactly one line, that packet's, to the end
\* of that session's persisted output and changes no other output; a decode
\* step of an Event or Reserved packet changes no persisted output.
C15_OneLinePerDataPacket ==
    \A th \in Sessions :
        Decoding(th) =>
            \A f \in Inputs \cap Frames :
                LET r == receive_and_handle_data(f) IN
                r.res = "ok" =>
                    r.lines = IF f.ptype = PT_DATA
                              THEN [fileLines EXCEPT ![th] = Append(@, f.ts)]
                              ELSE fileLines

\* the line a failed read logs, in Streaming and in Draining alike
TransportFailureLine == Msg("NoData", "", 0)

\* the loop th has just left Draining through a failed decode step with
\* captured < its nominal duration
PartialCapture(th) ==
    /\ loops[th].pc = "closing"
    /\ loops[th].failed
    /\ ActiveLoops = {th}
    /\ CanSubtract(last_time_stamp, start_time_stamp)
    /\ Captured < loops[th].nominal
    /\ windowOpen

\* C16: when Draining ends through a transport failure with captured <
\* NominalDuration, the line the session logs for it is another one than the
\* line every transport failure logs, so that the log tells a partial
\* capture from a failure after captured >= NominalDuration.
C16_PartialCaptureIsDistinct ==
    \A th \in Sessions :
        PartialCapture(th) => text_box # TransportFailureLine

\* the line start() logs when open_socket() fails
ConnectionRefusedLine == Msg("ConnectionRefused", "", 0)

\* C17: a start request whose connect fails reports 'Connection Refused'
\* and does nothing else: the running flag is false before and after, no
\* file is opened or written, no acquisition loop and no Clock is started,
\* no timeline is built; the flag being false, the next start request
\* takes the branch that connects.
C17_ConnectionRefusedReturnsToIdle ==
    [][(text_box' = ConnectionRefusedLine /\ text_box # ConnectionRefusedLine) =>
          /\ ~socket_running
          /\ ~socket_running'
          /\ file' = file
          /\ fileOpen' = fileOpen
          /\ fileLines' = fileLines
          /\ loops' = loops
          /\ sockState' = sockState
          /\ \A t \in Timers : timers[t] = "none" => timers'[t] = "none"
          /\ timer_running' = timer_running
          /\ prompt_dictionary' = prompt_dictionary
          /\ collection_duration' = collection_duration
          /\ option' = option]_vars

C17_Witness ==
    /\ text_box = ConnectionRefusedLine
    /\ socket = 0
    /\ ~socket_running
    /\ \E th \in Sessions : loops[th].pc = "done"
    /\ ActiveLoops = {}

\* the acquisition loop th logs its summary and resets the timestamps
SessionReset(th) == loops[th].pc = "summary" /\ loops'[th].pc = "done"

\* what a decode step does to the timestamps, for every frame the loop th
\* can decode in the current state
StampsFollowData(th) ==
    \A f \in Inputs \cap Frames :
        LET r == receive_and_handle_data(f) IN
        IF f.ptype = PT_DATA /\ f.blen # 0
        THEN /\ r.last = f.ts
             /\ r.start = IF start_time_stamp = None THEN f.ts ELSE start_time_stamp
        ELSE r.start = start_time_stamp /\ r.last = last_time_stamp

\* C18: in every decode step a Data packet sets lastDeviceTimestamp to its
\* timestamp and sets startDeviceTimestamp only if it is unset, and an
\* Event or Reserved packet changes neither; a set startDeviceTimestamp
\* changes only when the one session there is resets it at its end, with
\* lastDeviceTimestamp; and the one is set if and only if the other is.
C18_SessionTimestamps ==
    [][/\ \A th \in Sessions : Decoding(th) => StampsFollowData(th)
       /\ (start_time_stamp # None /\ start_time_stamp' # start_time_stamp) =>
              /\ start_time_stamp' = None
              /\ last_time_stamp' = None
              /\ \E th \in Sessions : SessionReset(th) /\ ActiveLoops = {th}
       /\ (last_time_stamp' = None) <=> (start_time_stamp' = None)]_vars

\* a decode step of the loop th, the only active one, fails in this step:
\* the failure line appears in the log
DecodeFailedStep(th) ==
    /\ loops[th].pc \in {"streaming", "draining"}
    /\ ActiveLoops = {th}
    /\ text_box' = TransportFailureLine
    /\ text_box # TransportFailureLine

\* C19: a failed decode step takes the loop out of the phase that saw it, so
\* that no further decode is attempted there: from Streaming to the entry
\* of Draining though the running flag is set, from Draining to the close
\* though captured < NominalDuration; and a session that saw a failure goes
\* on to Draining and Closed: its loop does not die.
C19_DecodeFailureEndsPhase ==
    [][\A th \in Sessions :
          /\ DecodeFailedStep(th) =>
                 /\ loops'[th].failed
                 /\ loops'[th].pc =
                        IF loops[th].pc = "streaming" THEN "drain_enter" ELSE "closing"
          /\ (loops[th].failed /\ ActiveLoops = {th} /\ windowOpen) =>
                 loops'[th].pc # "crashed"]_vars

\* C20: a decode step that returns False, because the header read failed,
\* the body read failed after a complete header, or the body is empty,
\* leaves startDeviceTimestamp, lastDeviceTimestamp, the persisted output
\* and the Clock as they were, whatever part of a frame it had read.
C20_FailedDecodeHasNoEffect ==
    [][\A th \in Sessions :
          (loops'[th].failed /\ ~loops[th].failed) =>
              /\ start_time_stamp' = start_time_stamp
              /\ last_time_stamp' = last_time_stamp
              /\ fileLines' = fileLines
              /\ fileOpen' = fileOpen
              /\ timer_running' = timer_running
              /\ timers' = timers
              /\ seconds' = seconds
              /\ minutes' = minutes]_vars

C20_Witness ==
    /\ rd.pc = "stopped"
    /\ loops[1].failed
    /\ rd.received > 0
    /\ rd.received < rd.count
    /\ rd.count = DATA_BODY_LEN
    /\ last_time_stamp # None
    /\ fileLines[1] # <<>>

\* Data frames delivered with a body that does not hold 25 channel values
BadLengthDataFrames ==
    { f \in Frames : f.ptype = PT_DATA /\ f.blen # 0 /\ f.blen # DATA_BODY_LEN }

\* C21: in Streaming and in Draining, the decode step of a Data frame whose
\* body is not 111 bytes long reports failure and persists nothing, as a
\* failed read does, so that the loop goes on to close the transport and
\* the file.
C21_BadLengthIsTransportFailure ==
    \A th \in Sessions :
        (Decoding(th) /\ windowOpen) =>
            \A f \in Inputs \cap BadLengthDataFrames :
                LET r == receive_and_handle_data(f) IN
                /\ r.res = "fail"
                /\ r.lines = fileLines

\* C22: the step that enters Draining sets backlogMarkTimestamp to the
\* lastDeviceTimestamp the Streaming loop left; from then until the loop
\* has reported the backlog seconds the mark does not change, and
\* lastDeviceTimestamp does not change between the end of Draining and the
\* report.
C22_BacklogMark ==
    [][\A th \in Sessions :
          /\ (loops[th].pc = "drain_enter" /\ loops'[th].pc = "draining") =>
                 /\ backlog_time_stamp' = last_time_stamp
                 /\ last_time_stamp' = last_time_stamp
          /\ loops[th].pc \in {"draining", "closing", "summary"} =>
                 backlog_time_stamp' = backlog_time_stamp
          /\ (loops[th].pc \in {"closing", "summary"} /\ ~SessionReset(th)) =>
                 last_time_stamp' = last_time_stamp]_vars

\* C23: the loop that leaves Draining closes the transport and the file,
\* then emits the summary with the timestamps Draining left, and resets
\* them in that last step only; no loop is about to decode a packet with
\* the current file closed.
C23_CloseSummaryReset ==
    [][\A th \in Sessions :
          /\ (loops[th].pc \in {"closing", "summary"} /\ ~SessionReset(th)) =>
                 /\ start_time_stamp' = start_time_stamp
                 /\ last_time_stamp' = last_time_stamp
          /\ SessionReset(th) =>
                 /\ sockState[th] = "closed"
                 /\ ~fileOpen[th]
                 /\ start_time_stamp # None
                 /\ start_time_stamp' = None
                 /\ last_time_stamp' = None
          /\ (loops[th].pc = "summary" /\ windowOpen) => loops'[th].pc # "crashed"
          /\ (Decoding(th) /\ windowOpen) => (file # 0 /\ fileOpen[file])]_vars

\* a frame that carries the Data-Start event
DataStartFrame(f) ==
    f.kind = "frame" /\ f.ptype = PT_EVENT /\ f.blen # 0 /\ f.code = EV_DATA_START

\* C24: the Clock is started by an Event packet with code 2 and by nothing
\* else: of all the inputs a decode step can meet only a Data-Start event
\* starts a time_loop thread or sets timer_running, and a step in which a
\* Clock comes to life or timer_running becomes set is a decode step, not a
\* start request, a stop request, a tick or a step of the loop's epilogue.
C24_ClockStartedOnlyByDataStart ==
    [][/\ \A th \in Sessions :
             Decoding(th) =>
                 \A f \in Inputs :
                     LET r == receive_and_handle_data(f) IN
                     (r.spawn \/ (r.tr /\ ~timer_running)) => DataStartFrame(f)
       /\ ((\E t \in Timers : timers[t] = "none" /\ timers'[t] # "none")
              \/ (~timer_running /\ timer_running')) =>
             /\ \E th \in Sessions : Decoding(th)
             /\ delivered' = delivered + 1
             /\ timer_running'
             /\ text_box' = Msg("Beginning", "", 0)]_vars

\* a Clock is ticking in a session whose loop decoded a Data-Start event
C24_Witness ==
    /\ \E t \in Timers : timers[t] \in {"tick", "sleep"}
    /\ timer_running
    /\ \E th \in Sessions : loops[th].pc = "streaming"
    /\ start_time_stamp = None

\* the time_loop threads that are alive: in the loop body or asleep
LiveClocks == { t \in Timers : timers[t] \in {"tick", "sleep"} }

\* C25: at most one Clock ticker is alive at any time, whatever Data-Start
\* events the sessions decode.
C25_OneClock == Cardinality(LiveClocks) <= 1

\* C26: the counter value the Clock looks up in the Timeline is the number of
\* the tick: it grows by one with every tick for the whole life of the
\* Clock, so the key k of the Timeline is announced at tick k.
C26_LookupCounterIncreases ==
    [][\A t \in Timers :
          (timers[t] = "tick" /\ timer_running /\ timers'[t] = "sleep") =>
              LET tick == SecondsPerMinute * minutes + seconds + 1 IN
              /\ seconds' = seconds + 1
              /\ seconds' = tick
              /\ DictHas(prompt_dictionary, tick) =>
                     text_box' = Msg("Prompt", DictGet(prompt_dictionary, tick), tick)]_vars

\* the number of dictionary assignments determine_collection_duration makes
TimelineWrites(L) == 2 * L + 2

\* the timeline holds the action prompt at some key
HoldsActionPrompt(d) == \E i \in 1..Len(d) : d[i][2] = ACTION_PROMPT

\* C27 as stated: with relax = 0 and L >= 1 the entry at key 0 holds the
\* action prompt; with action = 0 the timeline holds no action prompt; in
\* both cases the timeline has fewer entries than writes.
C27_Stated_KeyZeroIsAction ==
    TimelineBuilt =>
        /\ (option.relax_time = 0 /\ option.loop_times >= 1) =>
               /\ DictGet(prompt_dictionary, 0) = ACTION_PROMPT
               /\ Len(prompt_dictionary) < TimelineWrites(option.loop_times)
        /\ (option.action_time = 0 /\ option.loop_times >= 1) =>
               /\ ~HoldsActionPrompt(prompt_dictionary)
               /\ Len(prompt_dictionary) < TimelineWrites(option.loop_times)

\* C27: when two computed offsets coincide the later write wins: with
\* relax = 0, action > 0 and L >= 1 the entry at key 0 holds the action
\* prompt, not Relax; with action = 0 and L >= 1 every loop's action entry is
\* overwritten by Relax, so the timeline holds no action prompt at all and,
\* when relax = 0 as well, key 0 holds Relax; in both cases the timeline has
\* fewer entries than the number of writes.
C27_LaterWriteWins ==
    TimelineBuilt =>
        /\ (option.relax_time = 0 /\ option.action_time > 0 /\ option.loop_times >= 1) =>
               /\ DictGet(prompt_dictionary, 0) = ACTION_PROMPT
               /\ Len(prompt_dictionary) < TimelineWrites(option.loop_times)
        /\ (option.action_time = 0 /\ option.loop_times >= 1) =>
               /\ ~HoldsActionPrompt(prompt_dictionary)
               /\ DictGet(prompt_dictionary, 0) = RELAX_PROMPT
               /\ Len(prompt_dictionary) < TimelineWrites(option.loop_times)

C27_Witness ==
    /\ TimelineBuilt
    /\ option = [relax_time |-> 0, action_time |-> 2, loop_times |-> 2]
    /\ prompt_dictionary =
           << <<0, ACTION_PROMPT>>, <<2, ACTION_PROMPT>>, <<4, RELAX_PROMPT>> >>

\* C28: once the running flag is cleared, an acquisition loop that is
\* Streaming or Draining eventually reaches Closed: the transport of the
\* model delivers Data packets that reach the nominal duration or, after at
\* most MaxFrames frames, fails.
C28_DrainTerminates ==
    \A th \in Sessions :
        (loops[th].pc \in {"streaming", "drain_enter", "draining"} /\ ~socket_running)
            ~> (loops[th].pc = "done")

\* C29: a decode step reports failure only when a read of the transport
\* failed: the call of recvall it has just made returned None, not the bytes
\* it was asked for; a frame that was delivered completely, with whatever
\* body length, does not make the step report failure.
C29_FailureOnlyOnReadFailure ==
    [][\A th \in Sessions :
          (loops'[th].failed /\ ~loops[th].failed) =>
              /\ rd.pc \in {"hdr_ret", "body_ret"}
              /\ ~ret.ok]_vars

\* C30: whenever the acquisition loop of a new session begins, the device
\* timestamps are unset, whatever way the sessions before it ended.
C30_NewSessionStartsUnset ==
    [][\A th \in Sessions :
          (loops[th].pc = "none" /\ loops'[th].pc = "streaming") =>
              /\ start_time_stamp' = None
              /\ last_time_stamp' = None]_vars

\* the largest event code the names are compared for
MaxEventCode == 12

\* the names the statement gives: 4, 6, 7 and 8 are Reserved, 5 is not in
\* the table
StatedEventName(c) ==
    CASE c = 1 -> "Greeting/Version"
      [] c = 2 -> "Data Start"
      [] c = 3 -> "Data Stop"
      [] c \in {4, 6, 7, 8} -> "Reserved"
      [] c = 9 -> "Sensor Map"
      [] c = 10 -> "Data Rate"
      [] OTHER -> "UNKNOWN"

\* the names with code 5 Reserved as well
TableEventName(c) == IF c = 5 THEN "Reserved" ELSE StatedEventName(c)

\* the decode step about to be taken handles a completely delivered Event
\* packet with a code field
EventDecodeStep(th) ==
    /\ loops[th].pc = "streaming"
    /\ rd.pc = "body_ret"
    /\ ret.ok
    /\ Len(ret.data) >= 4
    /\ packet_type(rd.header) = PT_EVENT
    /\ loops' # loops \/ rd' # rd

\* the code of the Event packet recvall has just returned the body of
ReceivedCode == BigEndian(SubSeq(ret.data, 1, 4))

\* what the decode step of an Event packet does, the packet's name being
\* Name(code), which is the name the lookup gives for every code up to
\* MaxEventCode: the last line logged carries name and code, except for
\* code 2, where the line that announces the collection follows it; every
\* code other than 2 leaves phase, timestamps, Clock and persisted output
\* unchanged
EventStepLogs(Name(_)) ==
    \A th \in Sessions :
        EventDecodeStep(th) =>
            /\ delivered' = delivered + 1
            /\ \A c \in 0..MaxEventCode : EventName(c) = Name(c)
            /\ ReceivedCode = EV_DATA_START =>
                   /\ text_box' = Msg("Beginning", "", 0)
                   /\ timer_running'
                   /\ timers' # timers
            /\ ReceivedCode # EV_DATA_START =>
                   /\ text_box' = Msg("Event", Name(ReceivedCode), ReceivedCode)
                   /\ loops' = loops
                   /\ start_time_stamp' = start_time_stamp
                   /\ last_time_stamp' = last_time_stamp
                   /\ timer_running' = timer_running
                   /\ timers' = timers
                   /\ seconds' = seconds
                   /\ minutes' = minutes
                   /\ fileLines' = fileLines
                   /\ fileOpen' = fileOpen

\* C31 as stated: codes 1, 2, 3, 9 and 10 have their names, codes 4, 6, 7
\* and 8 are named Reserved, every other code (0, 5 and the codes above 10)
\* is reported as UNKNOWN; only code 2 has an effect on the session.
C31_Stated_FiveIsUnknown ==
    [][EventStepLogs(StatedEventName)]_vars

\* C31: every Event packet is logged with a name and its code: codes 1, 2,
\* 3, 9 and 10 are named Greeting/Version, Data Start, Data Stop, Sensor Map
\* and Data Rate; codes 4, 5, 6, 7 and 8 are named Reserved; every other
\* code (0 and the codes above 10) is reported as UNKNOWN.  Only code 2 has
\* an effect on the session; every other code leaves phase, timestamps,
\* Clock and persisted output unchanged.
C31_EventNames ==
    [][EventStepLogs(TableEventName)]_vars

\* an Event packet with code 5 was decoded and logged, and Streaming goes on
C31_Witness ==
    /\ text_box = Msg("Event", "Reserved", 5)
    /\ loops[1].pc = "streaming"
    /\ rd.pc = "hdr"
    /\ rd.last.res = "ok"

\* C32: for an option whose relax_time, action_time and loop_times are all
\* >= 0, update_vals with arbitrary numeric arguments leaves all three >= 0;
\* a negative argument leaves its field unchanged and a non-negative
\* argument replaces it (the loop count by the argument's whole part).
C32_UpdateValsKeepsInvariant ==
    \A o \in options :
        /\ o.action_time >= 0 /\ o.relax_time >= 0 /\ o.loop_times >= 0
        /\ \A a, r, l \in Numbers :
               LET u == update_vals(o, a, r, l) IN
               /\ u.action_time >= 0 /\ u.relax_time >= 0 /\ u.loop_times >= 0
               /\ u.action_time = IF a < 0 THEN o.action_time ELSE a
               /\ u.relax_time = IF r < 0 THEN o.relax_time ELSE r
               /\ u.loop_times = IF l < 0 THEN o.loop_times ELSE int(l)

====
